---- MODULE Spec2Model ----
(***************************************************************************)
(* The Llama2 notebook (models/llama2/scrapwork/llama2.ipynb) as a state   *)
(* machine: the cells that construct the modules, the forward passes of    *)
(* RMSNorm, FeedForward, compute_rope, MultiHeadedAttention,               *)
(* TransformerBlock and Llama2 statement by statement, and the             *)
(* step-through cells of FeedForward and compute_rope.                     *)
(*                                                                         *)
(* Numbers.  A tensor is a nested sequence (1-based) of integers; the      *)
(* integer a stands for the real number a / Scale (fixed point), in        *)
(* activations and in weights alike, and a product is divided by Scale.    *)
(* Division is floor division.  The torch primitives the notebook calls    *)
(* (sqrt, exp, cos, sin, pow) are computed in the same fixed point by      *)
(* series and integer roots.  -inf and nan are the two reserved values     *)
(* NegInf and NaN.  exp of a finite number is never rounded down to 0      *)
(* (the least positive fixed-point value is returned instead), as e^x > 0. *)
(***************************************************************************)
EXTENDS Integers, Sequences, FiniteSets, TLC

\* fixed-point unit: the integer a stands for a / Scale
Scale == 1000

\* -inf (torch.inf negated, line 856) and nan
NegInf == -2000000000
NaN == 2000000000

\* RMSNorm's eps=1e-5 (line 44) is 1 / EpsInv
EpsInv == 100000

\* theta_base=10_000, the default of precompute_rope_params (line 345)
ThetaBase == 10000

Abs(a) == IF a < 0 THEN -a ELSE a
Max(a, b) == IF a >= b THEN a ELSE b
Min(a, b) == IF a <= b THEN a ELSE b

RECURSIVE SumTo(_, _)
SumTo(f, n) == IF n = 0 THEN 0 ELSE f[n] + SumTo(f, n - 1)

\* the sum of the sequence f
Sum(f) == SumTo(f, Len(f))

\* the dot product of two vectors of the same length
Dot(u, w) == Sum([i \in 1..Len(u) |-> u[i] * w[i]])

RECURSIVE SqrtIter(_, _)
SqrtIter(n, r) ==
    LET r2 == (r + n \div r) \div 2
    IN  IF r2 >= r THEN r ELSE SqrtIter(n, r2)

\* floor of the square root of n >= 0
ISqrt(n) == IF n < 2 THEN n ELSE SqrtIter(n, n)

\* r^m, or cap + 1 as soon as the power exceeds cap
RECURSIVE PowCap(_, _, _)
PowCap(r, m, cap) ==
    IF m = 0 THEN 1
    ELSE LET p == PowCap(r, m - 1, cap)
         IN  IF p > cap \div r THEN cap + 1 ELSE p * r

RECURSIVE RootSearch(_, _, _, _)
RootSearch(n, m, lo, hi) ==
    IF lo >= hi THEN lo
    ELSE LET mid == (lo + hi + 1) \div 2
         IN  IF PowCap(mid, m, n) <= n
             THEN RootSearch(n, m, mid, hi)
             ELSE RootSearch(n, m, lo, mid - 1)

\* floor of the m-th root of n >= 1, m >= 1
IRoot(n, m) == RootSearch(n, m, 1, n)

\* sum_{k = 0..} (-1)^k r^k / k! for 0 <= r <= Scale, eight terms
RECURSIVE ExpSeries(_, _, _)
ExpSeries(r, k, term) ==
    IF k > 8 \/ term = 0 THEN 0
    ELSE LET next == (term * r) \div (Scale * k)
         IN  (IF k % 2 = 1 THEN -next ELSE next) + ExpSeries(r, k + 1, next)

\* e^(-r / Scale) for 0 <= r <= Scale
ExpFrac(r) == Scale + ExpSeries(r, 1, Scale)

RECURSIVE ExpWhole(_, _)
ExpWhole(v, q) ==
    IF q = 0 \/ v = 0 THEN v ELSE ExpWhole((v * ExpFrac(Scale)) \div Scale, q - 1)

\* torch's exp at -d / Scale, d >= 0 or d = -NegInf: positive unless the
\* argument is -inf
ExpNeg(d) ==
    IF d >= -NegInf THEN 0
    ELSE IF d > 20 * Scale THEN 1
    ELSE Max(1, ExpWhole(ExpFrac(d % Scale), d \div Scale))

\* torch's sigmoid, 1 / (1 + e^(-a))
Sigmoid(a) ==
    IF a >= 0 THEN (Scale * Scale) \div (Scale + ExpNeg(a))
    ELSE (ExpNeg(-a) * Scale) \div (Scale + ExpNeg(-a))

\* nn.SiLU on a number: x * sigmoid(x)
SiLU(a) == (a * Sigmoid(a)) \div Scale

\* the terms a^k / k! of the sine and cosine series, k = from, from + 2, ...
RECURSIVE TrigSeries(_, _, _, _)
TrigSeries(a, k, term, sign) ==
    IF k > 26 \/ term = 0 THEN 0
    ELSE LET next == (((term * a) \div (Scale * (k - 1))) * a) \div (Scale * k)
         IN  sign * next + TrigSeries(a, k + 2, next, -sign)

\* torch.cos and torch.sin of the angle a / Scale radians, a >= 0
CosFix(a) == Scale + TrigSeries(a, 2, Scale, -1)
SinFix(a) == a + TrigSeries(a, 3, a, -1)

----------------------------------------------------------------------------
(* Tensors: shapes, elementwise arithmetic, the nn layers' arithmetic.     *)

\* torch.ones(n) and torch.ones(n, m)
Ones(n) == [i \in 1..n |-> Scale]
Ones2(n, m) == [i \in 1..n |-> Ones(m)]

\* the shape of a rank-3 and of a rank-4 tensor (no dimension is empty here)
Shape3(x) == <<Len(x), Len(x[1]), Len(x[1][1])>>
Shape4(x) == <<Len(x), Len(x[1]), Len(x[1][1]), Len(x[1][1][1])>>

\* element k (1-based, row-major) of the storage of a contiguous tensor
FlatAt3(x, k) ==
    LET s == Shape3(x)
    IN  x[((k - 1) \div (s[2] * s[3])) + 1]
         [(((k - 1) \div s[3]) % s[2]) + 1]
         [((k - 1) % s[3]) + 1]

\* Tensor.view(b, n, h, d) of a contiguous rank-3 tensor
View4(x, b, n, h, d) ==
    [i1 \in 1..b |-> [i2 \in 1..n |-> [i3 \in 1..h |-> [i4 \in 1..d |->
        FlatAt3(x, (((i1 - 1) * n + (i2 - 1)) * h + (i3 - 1)) * d + i4)]]]]

\* Tensor.transpose(1, 2) of a rank-4 tensor
Transpose12(x) ==
    LET s == Shape4(x)
    IN  [i1 \in 1..s[1] |-> [i3 \in 1..s[3] |-> [i2 \in 1..s[2] |-> [i4 \in 1..s[4] |->
            x[i1][i2][i3][i4]]]]]

\* Tensor.reshape(b, n, d) of a rank-4 tensor: the elements in row-major order
Reshape3(x, b, n, d) ==
    LET s == Shape4(x)
        At(k) == x[((k - 1) \div (s[2] * s[3] * s[4])) + 1]
                  [(((k - 1) \div (s[3] * s[4])) % s[2]) + 1]
                  [(((k - 1) \div s[4]) % s[3]) + 1]
                  [((k - 1) % s[4]) + 1]
    IN  [i1 \in 1..b |-> [i2 \in 1..n |-> [i3 \in 1..d |->
            At(((i1 - 1) * n + (i2 - 1)) * d + i3)]]]

\* x + y of two rank-3 tensors of one shape
Add3(x, y) ==
    [b \in 1..Len(x) |-> [t \in 1..Len(x[b]) |-> [i \in 1..Len(x[b][t]) |->
        x[b][t][i] + y[b][t][i]]]]

\* nn.Linear: y = x W^T + bias on the last dimension; W is (out, in) and
\* bias is <<>> when the layer has none
Linear(x, l) ==
    [b \in 1..Len(x) |-> [t \in 1..Len(x[b]) |-> [o \in 1..Len(l.weight) |->
        Dot(x[b][t], l.weight[o]) \div Scale + (IF l.bias = <<>> THEN 0 ELSE l.bias[o])]]]

\* nn.Embedding: row in_idx[b][t] of the table for every token
Embedding(in_idx, weight) ==
    [b \in 1..Len(in_idx) |-> [t \in 1..Len(in_idx[b]) |-> weight[in_idx[b][t]]]]

\* torch's type promotion of two floating dtypes
PromoteTypes(a, b) == IF a = b THEN a ELSE "float32"

\* Tensor.to(dtype=to) of a tensor of dtype from
ToDType(from, to) == to

\* the fault of line 51 with dim=(1, 2): one mean for every sequence, over
\* its tokens and features
MeanSquaresOfSequence(x) ==
    [b \in 1..Len(x) |-> [t \in 1..Len(x[b]) |->
        Sum([u \in 1..Len(x[b]) |->
                Sum([i \in 1..Len(x[b][u]) |-> x[b][u][i] * x[b][u][i]])])
          \div (Len(x[b]) * Len(x[b][t]))]]

\* x.pow(2).mean(dim=-1, keepdim=True) of a rank-3 tensor, in units of
\* 1 / Scale^2: one mean for every (b, t)
MeanSquares(x) ==
    [b \in 1..Len(x) |-> [t \in 1..Len(x[b]) |->
        Sum([i \in 1..Len(x[b][t]) |-> x[b][t][i] * x[b][t][i]]) \div Len(x[b][t])]]

\* torch.rsqrt(m + eps), m and eps in units of 1 / Scale^2
Rsqrt(m, eps) == (Scale * Scale) \div ISqrt(m + eps)

\* the fault of LayerNorm for RMSNorm: the mean of the last dimension is
\* subtracted before the scaling
Centered(x) ==
    [b \in 1..Len(x) |-> [t \in 1..Len(x[b]) |-> [i \in 1..Len(x[b][t]) |->
        x[b][t][i] - Sum(x[b][t]) \div Len(x[b][t])]]]
RMSNormCentered(x, weight) ==
    [b \in 1..Len(x) |-> [t \in 1..Len(x[b]) |-> [i \in 1..Len(x[b][t]) |->
        (((Centered(x)[b][t][i]
           * Rsqrt(MeanSquares(Centered(x))[b][t], (Scale * Scale) \div EpsInv))
          \div Scale) * weight[i]) \div Scale]]]

\* RMSNorm.forward (lines 50-53)
RMSNorm(x, weight) ==
    LET means == MeanSquares(x)
        eps == (Scale * Scale) \div EpsInv
        x_norm == [b \in 1..Len(x) |-> [t \in 1..Len(x[b]) |-> [i \in 1..Len(x[b][t]) |->
                      (x[b][t][i] * Rsqrt(means[b][t], eps)) \div Scale]]]
    IN  [b \in 1..Len(x) |-> [t \in 1..Len(x[b]) |-> [i \in 1..Len(x[b][t]) |->
            (x_norm[b][t][i] * weight[i]) \div Scale]]]

\* the dtype RMSNorm.forward returns: x_norm * self.weight promotes with the
\* float32 weight (line 48), .to(dtype=x.dtype) casts back (line 53)
RMSNormDType(xdt) == ToDType(PromoteTypes(xdt, "float32"), xdt)

\* nn.SiLU on a rank-3 tensor, elementwise
SiLU3(x) ==
    [b \in 1..Len(x) |-> [t \in 1..Len(x[b]) |-> [i \in 1..Len(x[b][t]) |->
        SiLU(x[b][t][i])]]]

\* x * y of two rank-3 tensors of one shape, elementwise
Mul3(x, y) ==
    [b \in 1..Len(x) |-> [t \in 1..Len(x[b]) |-> [i \in 1..Len(x[b][t]) |->
        (x[b][t][i] * y[b][t][i]) \div Scale]]]

\* the fault of line 214 with the gate on the product: fc3(silu(fc1(x) *
\* fc2(x)))
FeedForwardGateProduct(x, ff) ==
    Linear(SiLU3(Mul3(Linear(x, ff.fc1), Linear(x, ff.fc2))), ff.fc3)

\* FeedForward.forward (lines 212-216)
FeedForward(x, ff) ==
    Linear(Mul3(SiLU3(Linear(x, ff.fc1)), Linear(x, ff.fc2)), ff.fc3)

----------------------------------------------------------------------------
(* Rotary embedding.  A function that can raise returns a record whose     *)
(* field err names the exception ("" when it returns normally).            *)

AssertDivisible == "AssertionError: The output dimension (d_out) mus be divisible by n_heads"
AssertEmbeddingEven == "AssertionError: Embedding dimension must be even"
AssertHeadEven == "AssertionError: Head dimension must be even"
AssertHeadNeedsEven == "AssertionError: Head dimension needs to be even"
ShapeMismatch == "RuntimeError: The size of tensor a must match the size of tensor b"

\* torch.arange(start, stop, step), step > 0
Arange(start, stop, step) ==
    [i \in 1..(IF stop > start THEN (stop - start + step - 1) \div step ELSE 0) |->
        start + (i - 1) * step]

\* seq[:n]
Take(seq, n) == SubSeq(seq, 1, Min(n, Len(seq)))

\* seq[n:]
Drop(seq, n) == SubSeq(seq, Min(n, Len(seq)) + 1, Len(seq))

RECURSIVE GCD(_, _)
GCD(a, b) == IF b = 0 THEN a ELSE GCD(b, a % b)

\* 1.0 / (theta ** (num / den)) for num >= 0, den >= 1: the power is the
\* num-th power of the den-th root, the root taken to one decimal place
InvPow(theta, num, den) ==
    IF num = 0 THEN Scale
    ELSE LET g == GCD(num, den)
             root10 == IRoot(theta * PowCap(10, den \div g, NaN), den \div g)
         IN  (Scale * PowCap(10, num \div g, NaN)) \div PowCap(root10, num \div g, NaN)

\* inv_freq (line 349): 1.0 / theta_base ** (exps / head_dim)
InvFreq(exps, head_dim) ==
    [k \in 1..Len(exps) |-> InvPow(ThetaBase, exps[k], head_dim)]

\* the fault of line 352 with the positions counted from 1:
\* torch.arange(1, context_length + 1)
OuterFromOne(positions, inv_freq) ==
    [p \in 1..Len(positions) |-> [k \in 1..Len(inv_freq) |->
        (positions[p] + 1) * inv_freq[k]]]

\* positions[:, None] * inv_freq[None, :] (line 355)
Outer(positions, inv_freq) ==
    [p \in 1..Len(positions) |-> [k \in 1..Len(inv_freq) |-> positions[p] * inv_freq[k]]]

\* torch.cat([a, b], dim=1) of two matrices (line 358)
CatDim1(a, b) == [p \in 1..Len(a) |-> a[p] \o b[p]]

\* torch.cos(angles), torch.sin(angles); return cos, sin (lines 361-364)
RopeTables(angles) ==
    [err |-> "",
     cos |-> [p \in 1..Len(angles) |-> [j \in 1..Len(angles[p]) |-> CosFix(angles[p][j])]],
     sin |-> [p \in 1..Len(angles) |-> [j \in 1..Len(angles[p]) |-> SinFix(angles[p][j])]]]

\* the angles, expanded to head_dim columns (lines 349-358)
RopeAngles(half) == CatDim1(half, half)

\* the fault of line 346 left out: no assertion on head_dim % 2
precompute_rope_params_unchecked(head_dim, context_length) ==
    RopeTables(RopeAngles(Outer(
        Arange(0, context_length, 1),
        InvFreq(Take(Arange(0, head_dim, 2), head_dim \div 2), head_dim))))

\* precompute_rope_params (lines 345-364)
precompute_rope_params(head_dim, context_length) ==
    IF head_dim % 2 # 0 THEN [err |-> AssertEmbeddingEven, cos |-> <<>>, sin |-> <<>>]
    ELSE RopeTables(RopeAngles(Outer(
             Arange(0, context_length, 1),
             InvFreq(Take(Arange(0, head_dim, 2), head_dim \div 2), head_dim))))

\* two sizes broadcast together when they are equal or one of them is 1
Broadcastable(a, b) == a = b \/ a = 1 \/ b = 1

\* the index into a dimension of size len that broadcasting gives index i
BIdx(i, len) == IF len = 1 THEN 1 ELSE i

\* the fault of line 376 without the sign: torch.cat((x2, x1), dim=-1)
RotateHalfUnsigned(x) ==
    [b \in 1..Len(x) |-> [h \in 1..Len(x[b]) |-> [t \in 1..Len(x[b][h]) |->
        Drop(x[b][h][t], Len(x[b][h][t]) \div 2) \o Take(x[b][h][t], Len(x[b][h][t]) \div 2)]]]

\* torch.cat((-x2, x1), dim=-1) of the two halves of x (lines 372-376)
RotateHalf(x) ==
    [b \in 1..Len(x) |-> [h \in 1..Len(x[b]) |-> [t \in 1..Len(x[b][h]) |->
        LET v == x[b][h][t]
            x1 == Take(v, Len(v) \div 2)
            x2 == Drop(v, Len(v) \div 2)
        IN  [i \in 1..Len(x2) |-> -x2[i]] \o x1]]]

\* (x * cos) + (rotated * sin) with cos and sin of shape (1, 1, rows, cols)
\* broadcast over the batch and the heads (line 382)
RopeCombine(x, rotated, cos, sin) ==
    [b \in 1..Len(x) |-> [h \in 1..Len(x[b]) |-> [t \in 1..Len(x[b][h]) |->
        [d \in 1..Len(x[b][h][t]) |->
            (x[b][h][t][d] * cos[BIdx(t, Len(cos))][BIdx(d, Len(cos[1]))]) \div Scale
            + (rotated[b][h][t][d] * sin[BIdx(t, Len(sin))][BIdx(d, Len(sin[1]))]) \div Scale]]]]

\* compute_rope (lines 366-383)
compute_rope(x, cos, sin) ==
    LET seq_len == Len(x[1][1])
        head_dim == Len(x[1][1][1])
        cos_s == Take(cos, seq_len)
        sin_s == Take(sin, seq_len)
    IN  IF head_dim % 2 # 0 THEN [err |-> AssertHeadEven, val |-> <<>>]
        ELSE IF ~(/\ Len(cos_s) > 0
                  /\ Broadcastable(Len(cos_s), seq_len)
                  /\ Broadcastable(Len(cos_s[1]), head_dim))
             THEN [err |-> ShapeMismatch, val |-> <<>>]
        ELSE [err |-> "", val |-> RopeCombine(x, RotateHalf(x), cos_s, sin_s)]

\* the dtype compute_rope returns: the float32 tables promote the products,
\* .to(dtype=x.dtype) casts back (line 383)
compute_rope_dtype(xdt) == ToDType(PromoteTypes(xdt, "float32"), xdt)

----------------------------------------------------------------------------
(* Parameters and constructors.  nn.Linear and nn.Embedding initialise at  *)
(* random and every weight is a trainable nn.Parameter: seed picks the     *)
(* values a module holds.                                                  *)

\* an (rows, cols) weight matrix with entries -0.5, 0, 0.5
GenWeight(rows, cols, seed) ==
    [r \in 1..rows |-> [c \in 1..cols |->
        (((r * r + 2 * c + r * c + seed) % 3) - 1) * (Scale \div 2)]]

\* n activation vectors of length d, entries -1, -0.5, 0, 0.5, 1: what
\* torch.rand / torch.randn and the rows of nn.Embedding hold
GenRows(n, d, seed) ==
    [r \in 1..n |-> [i \in 1..d |-> (((r * 7 + i * 3 + seed) % 5) - 2) * (Scale \div 2)]]

\* nn.Linear(in_features, out_features, bias=bias)
LinearInit(in_features, out_features, bias, seed) ==
    [weight |-> GenWeight(out_features, in_features, seed),
     bias |-> IF bias THEN GenRows(1, out_features, seed)[1] ELSE <<>>]

\* RMSNorm.__init__ (lines 44-48): weight is torch.ones(embd_dim) as
\* constructed (seed 0), any vector once trained
RMSNormInit(embd_dim, seed) ==
    [weight |-> IF seed = 0 THEN Ones(embd_dim)
                ELSE [i \in 1..embd_dim |-> Scale + ((i + seed) % 2) * (Scale \div 2)]]

\* FeedForward.__init__ (lines 204-210)
FeedForwardInit(config, seed) ==
    [fc1 |-> LinearInit(config.emb_dim, config.hidden_dim, config.ff_bias, seed),
     fc2 |-> LinearInit(config.emb_dim, config.hidden_dim, config.ff_bias, seed + 1),
     fc3 |-> LinearInit(config.hidden_dim, config.emb_dim, config.ff_bias, seed + 2)]

\* the fault of line 820 with diagonal=2: the entry right of the diagonal is
\* dropped from the mask
TriuAbove(m, diagonal) ==
    [i \in 1..Len(m) |-> [j \in 1..Len(m[i]) |->
        IF j - i >= diagonal + 1 THEN m[i][j] ELSE 0]]

\* torch.triu(m, diagonal=diagonal)
Triu(m, diagonal) ==
    [i \in 1..Len(m) |-> [j \in 1..Len(m[i]) |-> IF j - i >= diagonal THEN m[i][j] ELSE 0]]

\* MultiHeadedAttention.__init__ after the assertion (lines 809-825), rope
\* being what precompute_rope_params returned or raised
MultiHeadedAttentionLayers(d_in, d_out, context_length, num_heads, seed, rope) ==
    IF rope.err # "" THEN [err |-> rope.err, mod |-> <<>>]
    ELSE [err |-> "",
          mod |-> [d_out |-> d_out,
                   num_heads |-> num_heads,
                   head_dim |-> d_out \div num_heads,
                   W_query |-> LinearInit(d_in, d_out, FALSE, seed),
                   W_key |-> LinearInit(d_in, d_out, FALSE, seed + 1),
                   W_value |-> LinearInit(d_in, d_out, FALSE, seed + 2),
                   out_proj |-> LinearInit(d_out, d_out, FALSE, seed + 3),
                   mask |-> Triu(Ones2(context_length, context_length), 1),
                   cos |-> rope.cos,
                   sin |-> rope.sin]]

\* the fault of line 807 left out: no assertion on d_out % num_heads
MultiHeadedAttentionInitUnchecked(d_in, d_out, context_length, num_heads, seed) ==
    MultiHeadedAttentionLayers(d_in, d_out, context_length, num_heads, seed,
        precompute_rope_params(d_out \div num_heads, context_length))

\* MultiHeadedAttention.__init__ (lines 805-825)
MultiHeadedAttentionInit(d_in, d_out, context_length, num_heads, seed) ==
    IF d_out % num_heads # 0 THEN [err |-> AssertDivisible, mod |-> <<>>]
    ELSE MultiHeadedAttentionLayers(d_in, d_out, context_length, num_heads, seed,
             precompute_rope_params(d_out \div num_heads, context_length))

\* TransformerBlock.__init__ after self.att (lines 912-916), att being what
\* MultiHeadedAttention(...) returned or raised
TransformerBlockLayers(cfg, seed, att) ==
    IF att.err # "" THEN [err |-> att.err, mod |-> <<>>]
    ELSE [err |-> "",
          mod |-> [att |-> att.mod,
                   ff |-> FeedForwardInit(cfg, seed + 1),
                   norm1 |-> RMSNormInit(cfg.emb_dim, seed),
                   norm2 |-> RMSNormInit(cfg.emb_dim, seed + 1)]]

\* TransformerBlock.__init__ (lines 902-916)
TransformerBlockInit(cfg, seed) ==
    TransformerBlockLayers(cfg, seed,
        MultiHeadedAttentionInit(cfg.emb_dim, cfg.emb_dim, cfg.context_length,
                                 cfg.n_heads, seed))

\* Llama2.__init__ given the blocks of line 953, each constructed or raised:
\* the first one that raised ends the construction
Llama2Layers(cfg, blocks) ==
    IF \E l \in 1..Len(blocks) : blocks[l].err # ""
    THEN [err |-> blocks[CHOOSE l \in 1..Len(blocks) :
                            /\ blocks[l].err # ""
                            /\ \A m \in 1..(l - 1) : blocks[m].err = ""].err,
          mod |-> <<>>]
    ELSE [err |-> "",
          mod |-> [tok_emb |-> GenRows(cfg.vocab_size, cfg.emb_dim, cfg.seed),
                   trf_blocks |-> [l \in 1..Len(blocks) |-> blocks[l].mod],
                   final_norm |-> RMSNormInit(cfg.emb_dim, cfg.seed),
                   out_head |-> LinearInit(cfg.emb_dim, cfg.vocab_size, FALSE, cfg.seed + 1)]]

\* Llama2.__init__ (lines 948-959)
Llama2Init(cfg) ==
    Llama2Layers(cfg, [l \in 1..cfg.n_layers |-> TransformerBlockInit(cfg, cfg.seed + l - 1)])

----------------------------------------------------------------------------
(* The statements of MultiHeadedAttention.forward (lines 827-866).         *)

\* the fault of lines 836-843 with the heads in the view and no transpose:
\* t.view(b, num_heads, num_tokens, head_dim)
SplitHeadsByView(t, num_heads, head_dim) ==
    View4(t, Len(t), num_heads, Len(t[1]), head_dim)

\* t.view(b, num_tokens, num_heads, head_dim).transpose(1, 2) (lines 836-843)
SplitHeads(t, num_heads, head_dim) ==
    Transpose12(View4(t, Len(t), Len(t[1]), num_heads, head_dim))

\* queries @ keys.transpose(2, 3) (line 850)
AttnScores(q, k) ==
    [b \in 1..Len(q) |-> [h \in 1..Len(q[b]) |-> [i \in 1..Len(q[b][h]) |->
        [j \in 1..Len(k[b][h]) |-> Dot(q[b][h][i], k[b][h][j]) \div Scale]]]]

\* the fault of line 853 on a mask that holds the diagonal too (triu with
\* diagonal=0)
MaskBoolDiagonal(mask, num_tokens) ==
    [i \in 1..Len(Take(mask, num_tokens)) |->
        [j \in 1..Len(Take(mask[i], num_tokens)) |-> mask[i][j] # 0 \/ i = j]]

\* self.mask.bool()[:num_tokens, :num_tokens] (line 853)
MaskBool(mask, num_tokens) ==
    LET rows == Take(mask, num_tokens)
    IN  [i \in 1..Len(rows) |-> [j \in 1..Len(Take(rows[i], num_tokens)) |-> rows[i][j] # 0]]

\* the fault of line 856 written without the underscore: masked_fill returns
\* a new tensor, which is dropped, and attn_scores stays as it was
MaskedFillDiscarded(scores, mask_bool) ==
    [err |-> "", val |-> scores]

\* attn_scores.masked_fill_(mask_bool, -torch.inf) (line 856): the mask is
\* broadcast to the shape of the scores, which must allow it
MaskedFill(scores, mask_bool) ==
    LET n == Len(scores[1][1])
        m == Len(scores[1][1][1])
    IN  IF ~(/\ Len(mask_bool) > 0
             /\ Len(mask_bool) \in {1, n}
             /\ Len(mask_bool[1]) \in {1, m})
        THEN [err |-> ShapeMismatch, val |-> <<>>]
        ELSE [err |-> "",
              val |-> [b \in 1..Len(scores) |-> [h \in 1..Len(scores[b]) |->
                        [i \in 1..n |-> [j \in 1..m |->
                            IF mask_bool[BIdx(i, Len(mask_bool))][BIdx(j, Len(mask_bool[1]))]
                            THEN NegInf ELSE scores[b][h][i][j]]]]]]

\* keys.size(-1)**0.5
SqrtFix(head_dim) == ISqrt(head_dim * Scale * Scale)

\* a score divided by keys.size(-1)**0.5: -inf stays -inf
DivSqrt(s, head_dim) ==
    IF s = NegInf THEN NegInf ELSE (s * Scale) \div SqrtFix(head_dim)

\* the largest entry of a non-empty row (-inf when every entry is -inf)
RECURSIVE RowMaxTo(_, _)
RowMaxTo(row, n) == IF n = 1 THEN row[1] ELSE Max(row[n], RowMaxTo(row, n - 1))

\* torch.softmax on one row: the weight of entry j is num[j] / den; a row
\* of -inf alone gives nan
SoftmaxRow(row) ==
    LET m == RowMaxTo(row, Len(row))
        num == [j \in 1..Len(row) |-> IF row[j] = NegInf THEN 0 ELSE ExpNeg(m - row[j])]
    IN  IF m = NegInf THEN [num |-> [j \in 1..Len(row) |-> NaN], den |-> NaN]
        ELSE [num |-> num, den |-> Sum(num)]

\* torch.softmax(attn_scores / keys.size(-1)**0.5, dim=-1) (line 859)
AttnWeights(scores, head_dim) ==
    [b \in 1..Len(scores) |-> [h \in 1..Len(scores[b]) |-> [i \in 1..Len(scores[b][h]) |->
        SoftmaxRow([j \in 1..Len(scores[b][h][i]) |-> DivSqrt(scores[b][h][i][j], head_dim)])]]]

\* (attn_weights @ values).transpose(1, 2) (line 861)
ContextVec(w, v) ==
    Transpose12(
        [b \in 1..Len(w) |-> [h \in 1..Len(w[b]) |-> [i \in 1..Len(w[b][h]) |->
            [d \in 1..Len(v[b][h][1]) |->
                IF w[b][h][i].den = NaN THEN NaN
                ELSE Sum([j \in 1..Len(v[b][h]) |-> w[b][h][i].num[j] * v[b][h][j][d]])
                       \div w[b][h][i].den]]]])

\* the fault of line 864 that keeps the heads apart:
\* context_vec.reshape(b, -1, self.head_dim)
MergeHeadsApart(c, d_out) ==
    Reshape3(c, Len(c), Len(c[1]) * Len(c[1][1]), Len(c[1][1][1]))

\* context_vec.reshape(b, num_tokens, self.d_out) (line 864)
MergeHeads(c, d_out) == Reshape3(c, Len(c), Len(c[1]), d_out)

----------------------------------------------------------------------------
(* The forward methods as functions of the module and the input.          *)

\* v with its entries computed once and kept; Op applied to values computed
\* once, and its result kept
Strict(v) == CHOOSE w \in {v} : w = w
With(v, Op(_)) == CHOOSE r \in {Strict(Op(w)) : w \in {Strict(v)}} : TRUE
With2(u, v, Op(_, _)) ==
    CHOOSE r \in {Strict(Op(a, b)) : a \in {Strict(u)}, b \in {Strict(v)}} : TRUE

\* the projection l of t split into heads (lines 831-843), and compute_rope
\* of heads h (lines 846-847), for a call that returns
Heads(att, t, l) ==
    With(With(t, LAMBDA u : Linear(u, l)),
         LAMBDA p : SplitHeads(p, att.num_heads, att.head_dim))
Rotated(att, h) ==
    With(h, LAMBDA u : compute_rope(u, att.cos, att.sin).val)

\* MultiHeadedAttention.forward from the scores on (lines 850-866), for the
\* rotated queries and keys q and k and the values v
AttMasked(att, q, k) ==
    With(With2(q, k, AttnScores),
         LAMBDA s : MaskedFill(s, MaskBool(att.mask, Len(s[1][1]))).val)
AttSoftmaxed(att, q, k) ==
    With(AttMasked(att, q, k), LAMBDA s : AttnWeights(s, att.head_dim))
AttMerged(att, w, v) ==
    With(With(With2(w, v, ContextVec), LAMBDA c : MergeHeads(c, att.d_out)),
         LAMBDA c : Linear(c, att.out_proj))

\* what MultiHeadedAttention.forward (lines 827-866) returns for the module
\* att and the input t, when it returns
MultiHeadedAttentionForward(att, t) ==
    With(t, LAMBDA u :
        AttMerged(att,
                  AttSoftmaxed(att, Rotated(att, Heads(att, u, att.W_query)),
                               Rotated(att, Heads(att, u, att.W_key))),
                  Heads(att, u, att.W_value)))

\* the two halves of TransformerBlock.forward (lines 920-923 and 926-929)
BlockAttn(blk, t) ==
    With(t, LAMBDA u :
        With2(MultiHeadedAttentionForward(blk.att,
                  With(u, LAMBDA a : RMSNorm(a, blk.norm1.weight))),
              u, Add3))
BlockFf(blk, h) ==
    With(h, LAMBDA u :
        With2(With(With(u, LAMBDA a : RMSNorm(a, blk.norm2.weight)),
                   LAMBDA n : FeedForward(n, blk.ff)),
              u, Add3))

\* what TransformerBlock.forward (lines 918-931) returns
TransformerBlockForward(blk, t) == BlockFf(blk, BlockAttn(blk, t))

\* what the first l blocks of nn.Sequential(*blocks) (line 953) return
RECURSIVE Sequential(_, _, _)
Sequential(blocks, l, t) ==
    IF l = 0 THEN Strict(t)
    ELSE TransformerBlockForward(blocks[l], Sequential(blocks, l - 1, t))

\* what Llama2.forward (lines 961-967) returns
Llama2Forward(m, idx) ==
    With(With(Sequential(m.trf_blocks, Len(m.trf_blocks), Embedding(idx, m.tok_emb)),
              LAMBDA u : RMSNorm(u, m.final_norm.weight)),
         LAMBDA n : Linear(n, m.out_head))

----------------------------------------------------------------------------
(* The notebook as a state machine.                                        *)

\* the longest input sequence and the largest context_length
MaxTokens == 3
MaxCtx == 3
\* the largest batch
MaxBatch == 2
\* the largest number of heads, d_out and number of layers
MaxHeads == 2
MaxDOut == 4
MaxLayers == 2
\* how many times forward is called on the module
MaxCalls == 2

VARIABLES
    prog,          \* the cells run: "llama", "mha", "ff" or "rope"
    pc,            \* the statement to run next
    cfg,           \* the configuration the cells use
    in_idx,        \* the input: token ids (b, n); row ids of the random tensor
    model,         \* the Llama2 module (line 994), <<>> before it exists
    mha,           \* the MultiHeadedAttention module of line 884
    x,             \* forward's x
    residual,      \* TransformerBlock.forward's residual
    dt,            \* the dtype of x
    layer,         \* the block of trf_blocks that is running
    queries,       \* MultiHeadedAttention.forward's locals
    keys,
    values,
    attn_scores,
    attn_weights,
    context_vec,
    err,           \* the exception raised, "" when none
    calls,         \* forward calls begun
    out,           \* what the last forward call returned
    prev_out,      \* what the forward call before it returned
    nb             \* the names the step-through cells bind

vars == <<prog, pc, cfg, in_idx, model, mha, x, residual, dt, layer, queries, keys,
          values, attn_scores, attn_weights, context_vec, err, calls, out, prev_out, nb>>

attVars == <<queries, keys, values, attn_scores, attn_weights, context_vec>>
modVars == <<prog, cfg, in_idx, model, mha>>

\* scaled-down Llama2Config7B (lines 977-985)
LlamaConfigs ==
    {[vocab_size |-> 2, context_length |-> MaxCtx, emb_dim |-> e, n_heads |-> h,
      ff_bias |-> FALSE, n_layers |-> l, hidden_dim |-> 3,
      dtype |-> IF s = 0 THEN "bfloat16" ELSE "float32", seed |-> s] :
        e \in {2, 4}, h \in 1..MaxHeads, l \in 1..MaxLayers, s \in {0, 1}}

\* the settings of the MultiHeadedAttention cell (lines 875-884)
MhaConfigs ==
    {[d_in |-> i, d_out |-> o, context_length |-> c, num_heads |-> h, seed |-> 0] :
        i \in {2, 3}, o \in 1..MaxDOut, c \in 1..MaxCtx, h \in 1..MaxHeads}

\* a batch of b sequences made from the sequence s over 1..vocab
Batch(s, b, vocab) ==
    [bi \in 1..b |-> [t \in 1..Len(s) |-> ((s[t] + bi - 2) % vocab) + 1]]

\* sequences of n token ids over 1..vocab: one token repeated, the ids in
\* turn, and the ids in turn from the second on
TokenSeqs(n, vocab) ==
    {[t \in 1..n |-> 1], [t \in 1..n |-> ((t - 1) % vocab) + 1],
     [t \in 1..n |-> (t % vocab) + 1]}

\* the batches of token ids over 1..vocab
Batches(vocab) ==
    UNION {{Batch(s, b, vocab) : s \in TokenSeqs(n, vocab), b \in 1..MaxBatch} :
              n \in 1..MaxTokens}

\* the batches of one content for every shape
ShapeBatches ==
    {Batch([t \in 1..n |-> t], b, 5) : n \in 1..MaxTokens, b \in 1..MaxBatch}

\* the ExConfig of the FeedForward step-through (lines 234-239)
FfConfigs ==
    {[emb_dim |-> e, hidden_dim |-> 2, ff_bias |-> fb, seed |-> s] :
        e \in {2, 3}, fb \in BOOLEAN, s \in {0, 1}}

\* the settings of the rotary step-through (line 400)
RopeConfigs ==
    {[batch_size |-> b, context_len |-> c, num_heads |-> h, head_dim |-> d] :
        b \in 1..MaxBatch, c \in 1..MaxCtx, h \in 1..MaxHeads, d \in {2, 3, 4}}

\* the notebook's names with name bound to val
Bind(env, name, val) ==
    [f \in DOMAIN env \cup {name} |-> IF f = name THEN val ELSE env[f]]

\* torch.allclose(a, b) of two rank-3 tensors of one shape, with torch's
\* defaults rtol=1e-05 and atol=1e-08
AllClose(a, b) ==
    \A i \in 1..Len(a) : \A t \in 1..Len(a[i]) : \A j \in 1..Len(a[i][t]) :
        Abs(a[i][t][j] - b[i][t][j]) <= Abs(b[i][t][j]) \div 100000

\* the module whose forward is running
CurAtt == IF prog = "mha" THEN mha ELSE model.trf_blocks[layer].att

InitLlama ==
    /\ prog = "llama"
    /\ cfg \in LlamaConfigs
    /\ in_idx \in Batches(2)

InitMha ==
    /\ prog = "mha"
    /\ cfg \in MhaConfigs
    /\ in_idx \in ShapeBatches

InitFf ==
    /\ prog = "ff"
    /\ cfg \in FfConfigs
    /\ in_idx \in Batches(2)

InitRope ==
    /\ prog = "rope"
    /\ cfg \in RopeConfigs
    /\ in_idx \in {i \in Batches(2) :
                      Len(i) = cfg.batch_size /\ Len(i[1]) = cfg.context_len}

Init ==
    /\ \/ InitLlama
       \/ InitMha
       \/ InitFf
       \/ InitRope
    /\ pc = "cell"
    /\ model = <<>> /\ mha = <<>>
    /\ x = <<>> /\ residual = <<>> /\ dt = "" /\ layer = 0
    /\ queries = <<>> /\ keys = <<>> /\ values = <<>>
    /\ attn_scores = <<>> /\ attn_weights = <<>> /\ context_vec = <<>>
    /\ err = "" /\ calls = 0 /\ out = <<>> /\ prev_out = <<>>
    /\ nb = <<>>

\* a constructor call bound to a name: the name gets the module, or the
\* exception ends the cell
Constructed(r, name) ==
    /\ name = r.mod
    /\ err' = r.err
    /\ pc' = IF r.err = "" THEN "call" ELSE "raised"

\* model = Llama2(Llama2Config7B) (line 994)
CellModel ==
    /\ prog = "llama" /\ pc = "cell"
    /\ Constructed(Llama2Init(cfg), model')
    /\ UNCHANGED <<prog, cfg, in_idx, mha, x, residual, dt, layer, attVars, calls, out,
                   prev_out, nb>>

\* mha = MultiHeadedAttention(...) (line 884)
CellMha ==
    /\ prog = "mha" /\ pc = "cell"
    /\ Constructed(MultiHeadedAttentionInit(cfg.d_in, cfg.d_out, cfg.context_length,
                                            cfg.num_heads, cfg.seed), mha')
    /\ UNCHANGED <<prog, cfg, in_idx, model, x, residual, dt, layer, attVars, calls, out,
                   prev_out, nb>>

\* model(in_idx): Llama2.forward's embedding lookup (lines 962-963)
ForwardEmbed ==
    /\ prog = "llama" /\ pc = "call" /\ calls < MaxCalls
    /\ calls' = calls + 1
    /\ x' = Embedding(in_idx, model.tok_emb)
    /\ dt' = cfg.dtype
    /\ layer' = 1
    /\ pc' = "norm1"
    /\ prev_out' = out
    /\ UNCHANGED <<modVars, residual, attVars, err, out, nb>>

\* mha.forward(example_batch) (line 885) up to the projections (lines 828-833)
\* of the block's attention or of the cell's
AttProject(input) ==
    /\ queries' = Linear(input, CurAtt.W_query)
    /\ keys' = Linear(input, CurAtt.W_key)
    /\ values' = Linear(input, CurAtt.W_value)

\* example_batch = torch.randn(...); mha.forward(example_batch) (lines 882-885)
MhaCall ==
    /\ prog = "mha" /\ pc = "call" /\ calls < MaxCalls
    /\ calls' = calls + 1
    /\ x' = Embedding(in_idx, GenRows(5, cfg.d_in, cfg.seed))
    /\ dt' = "float32"
    /\ AttProject(x')
    /\ pc' = "split"
    /\ prev_out' = out
    /\ UNCHANGED <<modVars, residual, layer, attn_scores, attn_weights, context_vec, err,
                   out, nb>>

\* the fault of lines 920-921 in the other order: the residual is taken after
\* the normalisation
BlockNorm1ResidualNormed ==
    /\ pc = "norm1"
    /\ x' = RMSNorm(x, model.trf_blocks[layer].norm1.weight)
    /\ residual' = x'
    /\ dt' = RMSNormDType(dt)
    /\ pc' = "att"
    /\ UNCHANGED <<modVars, layer, attVars, err, calls, out, prev_out, nb>>

\* residual = x; x = self.norm1(x) (lines 920-921)
BlockNorm1 ==
    /\ pc = "norm1"
    /\ residual' = x
    /\ x' = RMSNorm(x, model.trf_blocks[layer].norm1.weight)
    /\ dt' = RMSNormDType(dt)
    /\ pc' = "att"
    /\ UNCHANGED <<modVars, layer, attVars, err, calls, out, prev_out, nb>>

\* x = self.att(x) (line 922) up to the projections (lines 828-833)
BlockAtt ==
    /\ pc = "att"
    /\ AttProject(x)
    /\ pc' = "split"
    /\ UNCHANGED <<modVars, x, residual, dt, layer, attn_scores, attn_weights, context_vec,
                   err, calls, out, prev_out, nb>>

\* the view and transpose of queries, keys and values (lines 836-843)
AttSplit ==
    /\ pc = "split"
    /\ queries' = SplitHeads(queries, CurAtt.num_heads, CurAtt.head_dim)
    /\ keys' = SplitHeads(keys, CurAtt.num_heads, CurAtt.head_dim)
    /\ values' = SplitHeads(values, CurAtt.num_heads, CurAtt.head_dim)
    /\ pc' = "rope"
    /\ UNCHANGED <<modVars, x, residual, dt, layer, attn_scores, attn_weights, context_vec,
                   err, calls, out, prev_out, nb>>

\* the fault of line 847 left out: only the keys are rotated
RopedKeysOnly(k, q) ==
    IF k.err # "" THEN /\ err' = k.err /\ pc' = "raised"
                       /\ UNCHANGED <<queries, keys>>
    ELSE /\ keys' = k.val /\ UNCHANGED queries
         /\ pc' = "scores" /\ UNCHANGED err

\* keys and queries bound to what the two compute_rope calls returned (k and
\* q), or the first exception raised
Roped(k, q) ==
    IF k.err # "" THEN /\ err' = k.err /\ pc' = "raised"
                       /\ UNCHANGED <<queries, keys>>
    ELSE IF q.err # "" THEN /\ err' = q.err /\ pc' = "raised"
                            /\ keys' = k.val /\ UNCHANGED queries
    ELSE /\ keys' = k.val /\ queries' = q.val
         /\ pc' = "scores" /\ UNCHANGED err

\* keys = compute_rope(keys, ...); queries = compute_rope(queries, ...)
\* (lines 846-847)
AttRope ==
    /\ pc = "rope"
    /\ Roped(compute_rope(keys, CurAtt.cos, CurAtt.sin),
             compute_rope(queries, CurAtt.cos, CurAtt.sin))
    /\ dt' = compute_rope_dtype(dt)
    /\ UNCHANGED <<modVars, x, residual, layer, values, attn_scores, attn_weights,
                   context_vec, calls, out, prev_out, nb>>

\* attn_scores = queries @ keys.transpose(2,3) (line 850)
AttScores ==
    /\ pc = "scores"
    /\ attn_scores' = AttnScores(queries, keys)
    /\ pc' = "mask"
    /\ UNCHANGED <<modVars, x, residual, dt, layer, queries, keys, values, attn_weights,
                   context_vec, err, calls, out, prev_out, nb>>

\* attn_scores after masked_fill_ returned r, or the exception it raised
Filled(r) ==
    IF r.err # "" THEN /\ err' = r.err /\ pc' = "raised" /\ UNCHANGED attn_scores
    ELSE /\ attn_scores' = r.val /\ pc' = "softmax" /\ UNCHANGED err

\* the fault of line 853 that rebinds the buffer: self.mask = self.mask[
\* :num_tokens, :num_tokens] before the fill
MaskSliced(mask, num_tokens) ==
    [i \in 1..Len(Take(mask, num_tokens)) |-> Take(mask[i], num_tokens)]
AttMaskOnBuffer ==
    /\ pc = "mask"
    /\ Filled(MaskedFill(attn_scores, MaskBool(CurAtt.mask, Len(attn_scores[1][1]))))
    /\ IF prog = "mha"
       THEN /\ mha' = [mha EXCEPT !.mask = MaskSliced(@, Len(attn_scores[1][1]))]
            /\ UNCHANGED model
       ELSE /\ model' = [model EXCEPT !.trf_blocks[layer].att.mask =
                                          MaskSliced(@, Len(attn_scores[1][1]))]
            /\ UNCHANGED mha
    /\ UNCHANGED <<prog, cfg, in_idx, x, residual, dt, layer, queries, keys, values,
                   attn_weights, context_vec, calls, out, prev_out, nb>>

\* mask_bool = ...; attn_scores.masked_fill_(mask_bool, -torch.inf)
\* (lines 853-856): in place on attn_scores, which no other name refers to
AttMask ==
    /\ pc = "mask"
    /\ Filled(MaskedFill(attn_scores, MaskBool(CurAtt.mask, Len(attn_scores[1][1]))))
    /\ UNCHANGED <<modVars, x, residual, dt, layer, queries, keys, values, attn_weights,
                   context_vec, calls, out, prev_out, nb>>

\* attn_weights = torch.softmax(...) (line 859)
AttSoftmax ==
    /\ pc = "softmax"
    /\ attn_weights' = AttnWeights(attn_scores, Len(keys[1][1][1]))
    /\ pc' = "context"
    /\ UNCHANGED <<modVars, x, residual, dt, layer, queries, keys, values, attn_scores,
                   context_vec, err, calls, out, prev_out, nb>>

\* context_vec = (attn_weights @ values).transpose(1,2) (line 861)
AttContext ==
    /\ pc = "context"
    /\ context_vec' = ContextVec(attn_weights, values)
    /\ pc' = "merge"
    /\ UNCHANGED <<modVars, x, residual, dt, layer, queries, keys, values, attn_scores,
                   attn_weights, err, calls, out, prev_out, nb>>

\* the reshape, the output projection and the return (lines 864-866): to
\* the cell, or to TransformerBlock.forward, which binds x (line 922)
AttReturn ==
    /\ pc = "merge"
    /\ context_vec' = Linear(MergeHeads(context_vec, CurAtt.d_out), CurAtt.out_proj)
    /\ IF prog = "mha"
       THEN /\ out' = context_vec' /\ pc' = "call" /\ UNCHANGED x
       ELSE /\ x' = context_vec' /\ pc' = "res1" /\ UNCHANGED out
    /\ UNCHANGED <<modVars, residual, dt, layer, queries, keys, values, attn_scores,
                   attn_weights, err, calls, prev_out, nb>>

\* x = x + residual (line 923)
BlockResidual1 ==
    /\ pc = "res1"
    /\ x' = Add3(x, residual)
    /\ pc' = "norm2"
    /\ UNCHANGED <<modVars, residual, dt, layer, attVars, err, calls, out, prev_out, nb>>

\* residual = x; x = self.norm2(x) (lines 926-927)
BlockNorm2 ==
    /\ pc = "norm2"
    /\ residual' = x
    /\ x' = RMSNorm(x, model.trf_blocks[layer].norm2.weight)
    /\ dt' = RMSNormDType(dt)
    /\ pc' = "ff"
    /\ UNCHANGED <<modVars, layer, attVars, err, calls, out, prev_out, nb>>

\* x = self.ff(x) (line 928)
BlockFeedForward ==
    /\ pc = "ff"
    /\ x' = FeedForward(x, model.trf_blocks[layer].ff)
    /\ pc' = "res2"
    /\ UNCHANGED <<modVars, residual, dt, layer, attVars, err, calls, out, prev_out, nb>>

\* x = x + residual; return x (lines 929-931): nn.Sequential (line 953) hands
\* the result to the next block, or trf_blocks returns (line 964)
BlockResidual2 ==
    /\ pc = "res2"
    /\ x' = Add3(x, residual)
    /\ IF layer < Len(model.trf_blocks)
       THEN /\ layer' = layer + 1 /\ pc' = "norm1"
       ELSE /\ layer' = layer /\ pc' = "final_norm"
    /\ UNCHANGED <<modVars, residual, dt, attVars, err, calls, out, prev_out, nb>>

\* the fault of line 965 left out: the blocks' output goes to out_head as
\* it is
FinalNormSkipped ==
    /\ pc = "final_norm"
    /\ x' = x
    /\ dt' = dt
    /\ pc' = "out_head"
    /\ UNCHANGED <<modVars, residual, layer, attVars, err, calls, out, prev_out, nb>>

\* x = self.final_norm(x) (line 965)
FinalNorm ==
    /\ pc = "final_norm"
    /\ x' = RMSNorm(x, model.final_norm.weight)
    /\ dt' = RMSNormDType(dt)
    /\ pc' = "out_head"
    /\ UNCHANGED <<modVars, residual, layer, attVars, err, calls, out, prev_out, nb>>

\* logits = self.out_head(x); return logits (lines 966-967)
OutHead ==
    /\ pc = "out_head"
    /\ out' = Linear(x, model.out_head)
    /\ pc' = "call"
    /\ UNCHANGED <<modVars, x, residual, dt, layer, attVars, err, calls, prev_out, nb>>

stepVars == <<modVars, x, residual, dt, layer, attVars, err, calls, out, prev_out>>

\* inputs = torch.stack([torch.rand(4, 8), torch.rand(4, 8)], dim=0); ff =
\* FeedForward(ExConfig()) (lines 248-258)
CellFf ==
    /\ prog = "ff" /\ pc = "cell"
    /\ nb' = [inputs |-> Embedding(in_idx, GenRows(2, cfg.emb_dim, cfg.seed)),
              ff |-> FeedForwardInit(cfg, cfg.seed)]
    /\ pc' = "fc1"
    /\ UNCHANGED stepVars

\* fc1 = ff.fc1(inputs) (line 267)
CellFc1 ==
    /\ pc = "fc1"
    /\ nb' = Bind(nb, "fc1", Linear(nb.inputs, nb.ff.fc1))
    /\ pc' = "fc2"
    /\ UNCHANGED stepVars

\* fc2 = ff.fc2(inputs) (line 277)
CellFc2 ==
    /\ pc = "fc2"
    /\ nb' = Bind(nb, "fc2", Linear(nb.inputs, nb.ff.fc2))
    /\ pc' = "silu"
    /\ UNCHANGED stepVars

\* silu = ff.silu(fc1) (line 288)
CellSilu ==
    /\ pc = "silu"
    /\ nb' = Bind(nb, "silu", SiLU3(nb.fc1))
    /\ pc' = "ff_out"
    /\ UNCHANGED stepVars

\* x = silu * fc2; out = ff.fc3(x) (lines 298-299)
CellFfOut ==
    /\ pc = "ff_out"
    /\ nb' = Bind(Bind(nb, "x", Mul3(nb.silu, nb.fc2)),
                  "out", Linear(Mul3(nb.silu, nb.fc2), nb.ff.fc3))
    /\ pc' = "allclose"
    /\ UNCHANGED stepVars

\* torch.allclose(ff.forward(inputs), out) (line 309)
CellAllclose ==
    /\ pc = "allclose"
    /\ nb' = Bind(nb, "allclose", AllClose(FeedForward(nb.inputs, nb.ff), nb.out))
    /\ pc' = "end"
    /\ UNCHANGED stepVars

\* the assertion of line 417 and inv_freq (line 449)
CellInvFreq ==
    /\ prog = "rope" /\ pc = "cell"
    /\ IF cfg.head_dim % 2 # 0
       THEN /\ err' = AssertHeadNeedsEven /\ pc' = "raised" /\ UNCHANGED nb
       ELSE /\ nb' = [inv_freq |-> InvFreq(Take(Arange(0, cfg.head_dim, 2),
                                                cfg.head_dim \div 2), cfg.head_dim)]
            /\ pc' = "angles" /\ UNCHANGED err
    /\ UNCHANGED <<modVars, x, residual, dt, layer, attVars, calls, out, prev_out>>

\* positions and angles (lines 466-511)
CellAngles ==
    /\ pc = "angles"
    /\ nb' = Bind(Bind(nb, "positions", Arange(0, cfg.context_len, 1)),
                  "angles", RopeAngles(Outer(Arange(0, cfg.context_len, 1), nb.inv_freq)))
    /\ pc' = "cos_sin"
    /\ UNCHANGED stepVars

\* cos = torch.cos(angles); sin = torch.sin(angles) (lines 522-523)
CellCosSin ==
    /\ pc = "cos_sin"
    /\ nb' = Bind(Bind(nb, "cos", RopeTables(nb.angles).cos), "sin", RopeTables(nb.angles).sin)
    /\ pc' = "queries"
    /\ UNCHANGED stepVars

\* torch.randn(batch_size, num_heads, context_len, head_dim): head h of
\* token t holds row in_idx[b][t] + h - 1 of the random rows
RandHeads(idx, num_heads, head_dim) ==
    [b \in 1..Len(idx) |-> [h \in 1..num_heads |-> [t \in 1..Len(idx[b]) |->
        GenRows(2 + num_heads, head_dim, 0)[idx[b][t] + h - 1]]]]

\* queries = torch.randn(...), and the shape read back with the assertion of
\* lines 582-584
CellQueries ==
    /\ pc = "queries"
    /\ nb' = Bind(Bind(Bind(nb, "queries", RandHeads(in_idx, cfg.num_heads, cfg.head_dim)),
                       "seq_len", Len(in_idx[1])),
                  "head_dim", cfg.head_dim)
    /\ pc' = "rotated"
    /\ UNCHANGED stepVars

\* torch.cat([q_first, q_second], dim=-1) of every vector (line 665)
CatHalves(first, second) ==
    [b \in 1..Len(first) |-> [h \in 1..Len(first[b]) |-> [t \in 1..Len(first[b][h]) |->
        first[b][h][t] \o second[b][h][t]]]]

\* q[..., : n] and q[..., n :] of a rank-4 tensor
TakeLast(q, n) ==
    [b \in 1..Len(q) |-> [h \in 1..Len(q[b]) |-> [t \in 1..Len(q[b][h]) |->
        Take(q[b][h][t], n)]]]
DropLast(q, n) ==
    [b \in 1..Len(q) |-> [h \in 1..Len(q[b]) |-> [t \in 1..Len(q[b][h]) |->
        Drop(q[b][h][t], n)]]]

\* q_first, q_second and rotated (lines 663-665)
CellRotated ==
    /\ pc = "rotated"
    /\ nb' = Bind(Bind(Bind(nb, "q_first", TakeLast(nb.queries, nb.head_dim \div 2)),
                       "q_second", DropLast(nb.queries, nb.head_dim \div 2)),
                  "rotated", CatHalves(TakeLast(nb.queries, nb.head_dim \div 2),
                                       DropLast(nb.queries, nb.head_dim \div 2)))
    /\ pc' = "adjust"
    /\ UNCHANGED stepVars

\* cos = cos[:seq_len, :].unsqueeze(0).unsqueeze(0), and sin (lines 688-691)
CellAdjust ==
    /\ pc = "adjust"
    /\ nb' = Bind(Bind(nb, "cos", << <<Take(nb.cos, nb.seq_len)>> >>),
                  "sin", << <<Take(nb.sin, nb.seq_len)>> >>)
    /\ pc' = "queries_rotated"
    /\ UNCHANGED stepVars

\* queries_rotated = ( queries * cos ) + ( rotated * sin ) (line 784)
CellQueriesRotated ==
    /\ pc = "queries_rotated"
    /\ nb' = Bind(nb, "queries_rotated",
                  RopeCombine(nb.queries, nb.rotated, nb.cos[1][1], nb.sin[1][1]))
    /\ pc' = "end"
    /\ UNCHANGED stepVars

Next ==
    \/ CellFf
    \/ CellFc1
    \/ CellFc2
    \/ CellSilu
    \/ CellFfOut
    \/ CellAllclose
    \/ CellInvFreq
    \/ CellAngles
    \/ CellCosSin
    \/ CellQueries
    \/ CellRotated
    \/ CellAdjust
    \/ CellQueriesRotated
    \/ CellModel
    \/ CellMha
    \/ ForwardEmbed
    \/ MhaCall
    \/ BlockNorm1
    \/ BlockAtt
    \/ AttSplit
    \/ AttRope
    \/ AttScores
    \/ AttMask
    \/ AttSoftmax
    \/ AttContext
    \/ AttReturn
    \/ BlockResidual1
    \/ BlockNorm2
    \/ BlockFeedForward
    \/ BlockResidual2
    \/ FinalNorm
    \/ OutHead

Spec == Init /\ [][Next]_vars

----------------------------------------------------------------------------
(* The claims.                                                             *)

\* the states of a MultiHeadedAttention.forward call that runs on an input
\* of num_tokens <= context_length
InContext == Len(x[1]) <= Len(CurAtt.mask)

\* values with every position after i replaced by the vector of c's
Wipe(v, i, c) ==
    [b \in 1..Len(v) |-> [h \in 1..Len(v[b]) |-> [t \in 1..Len(v[b][h]) |->
        IF t > i THEN [d \in 1..Len(v[b][h][t]) |-> c] ELSE v[b][h][t]]]]

\* C1: MultiHeadedAttention.forward is causal.  For num_tokens <=
\* context_length and every batch element, head and i < j: the score (i, j)
\* is -inf after the masking and stays -inf when divided by sqrt(head_dim),
\* the attention weight (i, j) is exactly 0, and the context vector at
\* position i is the same whatever the values at the positions after i are.
C1_Causal ==
    /\ (pc \in {"softmax", "context", "merge"} /\ InContext) =>
          \A b \in 1..Len(attn_scores) : \A h \in 1..Len(attn_scores[b]) :
          \A i \in 1..Len(attn_scores[b][h]) : \A j \in (i + 1)..Len(attn_scores[b][h][i]) :
              /\ attn_scores[b][h][i][j] = NegInf
              /\ DivSqrt(attn_scores[b][h][i][j], CurAtt.head_dim) = NegInf
    /\ (pc \in {"context", "merge"} /\ InContext) =>
          \A b \in 1..Len(attn_weights) : \A h \in 1..Len(attn_weights[b]) :
          \A i \in 1..Len(attn_weights[b][h]) :
              /\ attn_weights[b][h][i].den > 0
              /\ attn_weights[b][h][i].den # NaN
              /\ \A j \in (i + 1)..Len(attn_weights[b][h][i].num) :
                     attn_weights[b][h][i].num[j] = 0
    /\ (pc = "merge" /\ InContext) =>
          \A i \in 1..Len(context_vec[1]) : \A c \in {0, 7 * Scale} :
          \A b \in 1..Len(context_vec) :
              context_vec[b][i] = ContextVec(attn_weights, Wipe(values, i, c))[b][i]

\* an attention call on three tokens inside the context, where a later
\* position has non-zero values and an earlier one a non-zero context vector
C1_Witness ==
    /\ pc = "merge" /\ InContext /\ Len(x[1]) = 3
    /\ \E b \in 1..Len(values) : \E h \in 1..Len(values[b]) : \E d \in 1..Len(values[b][h][1]) :
          /\ values[b][h][3][d] # 0
          /\ values[b][h][2][d] # values[b][h][1][d]
          /\ context_vec[b][1][h][d] # 0
          /\ attn_weights[b][h][3].num[2] > 0
          /\ attn_weights[b][h][3].num[1] > 0

\* the projection l of the attention input, split into heads (lines 831-843)
HeadsOf(l) == SplitHeads(Linear(x, l), CurAtt.num_heads, CurAtt.head_dim)

C3_Block ==
    prog = "llama" =>
        /\ pc = "att" => x = RMSNorm(residual, model.trf_blocks[layer].norm1.weight)
        /\ pc = "norm2" =>
              \A t \in {Sequential(model.trf_blocks, layer - 1,
                                   Embedding(in_idx, model.tok_emb))} :
                  /\ residual = t
                  /\ x = BlockAttn(model.trf_blocks[layer], t)
        /\ pc = "ff" => x = RMSNorm(residual, model.trf_blocks[layer].norm2.weight)
        /\ pc = "final_norm" =>
              \A t \in {Sequential(model.trf_blocks, layer - 1,
                                   Embedding(in_idx, model.tok_emb))} :
              \A h \in {BlockAttn(model.trf_blocks[layer], t)} :
                  /\ residual = h
                  /\ x = BlockFf(model.trf_blocks[layer], h)

\* the second block of a model has returned, on two tokens or more, and both
\* sublayers and both normalisations changed what they were given
C3_Witness ==
    /\ prog = "llama" /\ pc = "final_norm" /\ layer = 2 /\ Len(x[1]) >= 2
    /\ x # residual
    /\ residual # RMSNorm(residual, model.trf_blocks[layer].norm2.weight)
    /\ \A t \in {Sequential(model.trf_blocks, 1, Embedding(in_idx, model.tok_emb))} :
          /\ residual # t
          /\ t # RMSNorm(t, model.trf_blocks[layer].norm1.weight)
          /\ t # Embedding(in_idx, model.tok_emb)

\* C6: Llama2.forward embeds in_idx with tok_emb, runs the n_layers blocks in
\* order, each on what the block before it returned, then final_norm, then
\* the bias-free out_head, whose result it returns: logits of shape
\* (batch, num_tokens, vocab_size).
C6_Forward ==
    prog = "llama" =>
        /\ pc # "cell" /\ err = "" =>
              /\ Len(model.trf_blocks) = cfg.n_layers
              /\ model.out_head.bias = <<>>
        /\ pc = "norm1" =>
              x = Sequential(model.trf_blocks, layer - 1, Embedding(in_idx, model.tok_emb))
        /\ pc = "final_norm" =>
              /\ layer = cfg.n_layers
              /\ x = Sequential(model.trf_blocks, cfg.n_layers,
                                Embedding(in_idx, model.tok_emb))
        /\ pc = "out_head" =>
              \A t \in {Sequential(model.trf_blocks, cfg.n_layers,
                                   Embedding(in_idx, model.tok_emb))} :
                  x = RMSNorm(t, model.final_norm.weight)
        /\ pc = "call" /\ calls > 0 =>
              /\ out = Llama2Forward(model, in_idx)
              /\ Shape3(out) = <<Len(in_idx), Len(in_idx[1]), cfg.vocab_size>>

\* a model of two blocks has returned logits for a batch of two sequences of
\* three tokens, and the blocks, the final norm and the head changed x
C6_Witness ==
    /\ prog = "llama" /\ pc = "call" /\ calls = 1
    /\ cfg.n_layers = 2 /\ Len(in_idx) = 2 /\ Len(in_idx[1]) = 3
    /\ \A e \in {Strict(Embedding(in_idx, model.tok_emb))} :
       \A t \in {Sequential(model.trf_blocks, 1, e)} :
       \A u \in {Sequential(model.trf_blocks, 2, e)} :
          /\ t # e /\ u # t
          /\ x # u
          /\ x = RMSNorm(u, model.final_norm.weight)
          /\ Shape3(out) # Shape3(x)
          /\ \E b \in 1..2 : \E i \in 1..3 : \E o \in 1..cfg.vocab_size : out[b][i][o] # 0

\* what a step of a forward call or of a step-through cell leaves as it was:
\* the input, the configuration, the modules once constructed (parameters and
\* buffers), and the tensors a statement reads but does not rebind
PureStep ==
    /\ in_idx' = in_idx /\ cfg' = cfg
    /\ pc # "cell" => model' = model /\ mha' = mha
    /\ (prog = "mha" /\ pc \notin {"cell", "call"}) => x' = x
    /\ pc \in {"norm1", "norm2"} => residual' = x
    /\ pc \in {"att", "split", "rope", "scores", "mask", "softmax", "context"} =>
          x' = x /\ residual' = residual
    /\ pc \in {"res1", "ff", "res2"} => residual' = residual
    /\ pc \in {"rope", "scores", "mask", "softmax", "context", "merge"} => values' = values
    /\ pc \in {"scores", "mask", "softmax", "context", "merge"} =>
          queries' = queries /\ keys' = keys
    /\ pc \in {"softmax", "context", "merge"} => attn_scores' = attn_scores
    /\ (prog = "ff" /\ pc # "cell") => nb'.inputs = nb.inputs /\ nb'.ff = nb.ff
    /\ (prog = "rope" /\ pc \in {"rotated", "adjust", "queries_rotated"}) =>
          nb'.queries = nb.queries

\* C4: the forward passes are pure.  No step of a forward call changes the
\* input, a parameter or a registered buffer (the in-place masked_fill_
\* writes only the freshly computed scores), no component changes the tensor
\* it is given, and a second forward call on the same module and input
\* returns what the first returned.
C4_Pure ==
    /\ [][PureStep]_vars
    /\ [](pc = "call" /\ calls >= 2 => out = prev_out)

\* the second of two forward calls has returned, and its masking wrote -inf
\* into the scores of three tokens
C4_Witness ==
    /\ pc = "call" /\ calls = 2
    /\ Len(in_idx[1]) = 3
    /\ attn_scores[1][1][1][3] = NegInf
    /\ out = prev_out
    /\ \E b \in 1..Len(out) : \E i \in 1..3 : \E o \in 1..Len(out[b][i]) : out[b][i][o] # 0

\* d_out, num_heads and context_length of the attention modules of the cell
DOut == IF prog = "mha" THEN cfg.d_out ELSE cfg.emb_dim
NumHeads == IF prog = "mha" THEN cfg.num_heads ELSE cfg.n_heads
Constructible == DOut % NumHeads = 0 /\ (DOut \div NumHeads) % 2 = 0

\* C5 as it is stated: constructing MultiHeadedAttention and running forward
\* returns or stops at one of the assertions, and raises nothing else.
C5_OnlyAssertions ==
    prog \in {"mha", "llama"} =>
        err \in {"", AssertDivisible, AssertEmbeddingEven, AssertHeadEven}

\* C5, amended: constructing MultiHeadedAttention and running forward returns
\* or stops at the assertion on d_out % num_heads == 0 or at the assertion
\* that head_dim is even, both in the constructor, or, when num_tokens >
\* context_length > 1, at the RuntimeError of the broadcast in compute_rope;
\* nothing else is raised, and each of the three is raised whenever its
\* condition holds.
C5_Outcomes ==
    prog \in {"mha", "llama"} =>
        /\ err \in {"", AssertDivisible, AssertEmbeddingEven, ShapeMismatch}
        /\ err # "" <=> pc = "raised"
        /\ err = AssertDivisible <=> (pc # "cell" /\ DOut % NumHeads # 0)
        /\ err = AssertEmbeddingEven <=>
              (pc # "cell" /\ DOut % NumHeads = 0 /\ (DOut \div NumHeads) % 2 # 0)
        /\ err \in {AssertDivisible, AssertEmbeddingEven} => calls = 0
        /\ err = ShapeMismatch =>
              /\ calls > 0
              /\ Len(x[1]) > cfg.context_length /\ cfg.context_length > 1
              /\ keys = Heads(CurAtt, x, CurAtt.W_key)
              /\ queries = Heads(CurAtt, x, CurAtt.W_query)
        /\ (calls > 0 /\ pc \notin {"split", "rope"} /\ Len(x[1]) > cfg.context_length
              /\ cfg.context_length > 1) => err = ShapeMismatch
        /\ (Constructible /\ calls > 0
              /\ (Len(x[1]) <= cfg.context_length \/ cfg.context_length = 1)) => err = ""

\* forward on three tokens with a context_length of two has raised the
\* RuntimeError
C5_Witness ==
    /\ prog = "mha" /\ pc = "raised" /\ err = ShapeMismatch
    /\ Len(x[1]) = 3 /\ cfg.context_length = 2
    /\ Constructible

\* entry i of v / sqrt(mean(v^2) + eps) * w, eps being 1 / EpsInv
NormAt(v, w, i) ==
    (((v[i] * ((Scale * Scale)
               \div ISqrt(Sum([k \in 1..Len(v) |-> v[k] * v[k]]) \div Len(v)
                          + (Scale * Scale) \div EpsInv)))
      \div Scale) * w[i]) \div Scale

\* the weight of the RMSNorm that returned to the statement at pc
NormWeight ==
    IF pc = "att" THEN model.trf_blocks[layer].norm1.weight
    ELSE model.trf_blocks[layer].norm2.weight

\* C7: RMSNorm.forward returns x * rsqrt(mean(x^2 over the last dimension)
\* + eps) * weight, with eps = 1e-5 inside the square root, no mean
\* subtracted and no shift added, in the shape and the dtype of its input;
\* the weight has embd_dim entries.
C7_RMSNorm ==
    prog = "llama" =>
        /\ pc \in {"att", "ff"} =>
              /\ Shape3(x) = Shape3(residual)
              /\ Len(NormWeight) = cfg.emb_dim
              /\ \A b \in 1..Len(x) : \A t \in 1..Len(x[b]) : \A i \in 1..Len(x[b][t]) :
                     x[b][t][i] = NormAt(residual[b][t], NormWeight, i)
        /\ calls > 0 => dt = cfg.dtype

\* norm2 has returned for a bfloat16 input of two sequences of two tokens
\* or more, with a weight that is not all ones, and changed the input
C7_Witness ==
    /\ prog = "llama" /\ pc = "ff" /\ dt = "bfloat16"
    /\ Len(x) = 2 /\ Len(x[1]) >= 2
    /\ NormWeight # Ones(cfg.emb_dim)
    /\ x # residual
    /\ x # RMSNorm(residual, Ones(cfg.emb_dim))
    /\ residual[1][1] # residual[1][2]
    /\ \E i \in 1..cfg.emb_dim : residual[1][1][i] # 0 /\ x[1][1][i] # 0

\* entry h of the layer l applied to the vector v, and entry o of
\* fc3(silu(fc1(v)) * fc2(v))
LinearAt(v, l, h) ==
    Sum([i \in 1..Len(v) |-> v[i] * l.weight[h][i]]) \div Scale
    + (IF l.bias = <<>> THEN 0 ELSE l.bias[h])
GatedAt(v, ff, h) == (SiLU(LinearAt(v, ff.fc1, h)) * LinearAt(v, ff.fc2, h)) \div Scale
FeedForwardAt(v, ff, o) ==
    Sum([h \in 1..Len(ff.fc1.weight) |-> GatedAt(v, ff, h) * ff.fc3.weight[o][h]]) \div Scale
    + (IF ff.fc3.bias = <<>> THEN 0 ELSE ff.fc3.bias[o])

\* C8: FeedForward.forward returns fc3(silu(fc1(x)) * fc2(x)): the SiLU gate
\* is on fc1's output alone, the product with fc2's output is elementwise,
\* fc3 maps back to emb_dim; the step-through cells compute the same tensor,
\* which their allclose confirms.
C8_FeedForward ==
    /\ (prog = "ff" /\ pc = "end") =>
          /\ nb.allclose
          /\ nb.out = FeedForward(nb.inputs, nb.ff)
          /\ nb.silu = SiLU3(nb.fc1)
          /\ Shape3(nb.out) = <<Len(in_idx), Len(in_idx[1]), cfg.emb_dim>>
          /\ \A b \in 1..Len(nb.out) : \A t \in 1..Len(nb.out[b]) :
             \A o \in 1..cfg.emb_dim :
                 nb.out[b][t][o] = FeedForwardAt(nb.inputs[b][t], nb.ff, o)
    /\ (prog = "llama" /\ pc = "res2") =>
          \A n \in {Strict(RMSNorm(residual, model.trf_blocks[layer].norm2.weight))} :
              /\ Shape3(x) = <<Len(in_idx), Len(in_idx[1]), cfg.emb_dim>>
              /\ \A b \in 1..Len(x) : \A t \in 1..Len(x[b]) : \A o \in 1..cfg.emb_dim :
                     x[b][t][o] = FeedForwardAt(n[b][t], model.trf_blocks[layer].ff, o)

\* the step-through has run on two sequences of two tokens or more, with
\* biases, a gate that differs from fc1's output and a non-zero result that
\* differs from fc3 of the ungated product
C8_Witness ==
    /\ prog = "ff" /\ pc = "end" /\ cfg.ff_bias
    /\ Len(in_idx) = 2 /\ Len(in_idx[1]) >= 2
    /\ nb.silu # nb.fc1
    /\ nb.fc1 # nb.fc2
    /\ nb.out # Linear(Mul3(nb.fc1, nb.fc2), nb.ff.fc3)
    /\ \E t \in 1..Len(in_idx[1]) : \E o \in 1..cfg.emb_dim :
          nb.out[1][t][o] # 0 /\ nb.out[1][t][o] # nb.out[2][t][o]

\* the rank-3 tensor t with every vector but the one at (b0, t0) replaced:
\* doubled and shifted by c
Elsewhere(t, b0, t0, c) ==
    [b \in 1..Len(t) |-> [i \in 1..Len(t[b]) |->
        IF b = b0 /\ i = t0 THEN t[b][i]
        ELSE [k \in 1..Len(t[b][i]) |-> 2 * t[b][i][k] + c]]]

\* C9: RMSNorm and FeedForward work on every token alone: what they return
\* at (b, t) is what they return there for any input with the same vector at
\* (b, t), whatever the other tokens and the other sequences hold.
C9_PerToken ==
    /\ (prog = "llama" /\ pc \in {"att", "ff"}) =>
          \A b \in 1..Len(x) : \A t \in 1..Len(x[b]) : \A c \in {-3 * Scale} :
          \A alt \in {Elsewhere(residual, b, t, c)} :
              RMSNorm(alt, NormWeight)[b][t] = x[b][t]
    /\ (prog = "llama" /\ pc = "res2") =>
          \A n \in {Strict(RMSNorm(residual, model.trf_blocks[layer].norm2.weight))} :
          \A b \in 1..Len(x) : \A t \in 1..Len(x[b]) : \A c \in {-3 * Scale} :
          \A alt \in {Elsewhere(n, b, t, c)} :
              FeedForward(alt, model.trf_blocks[layer].ff)[b][t] = x[b][t]
    /\ (prog = "ff" /\ pc = "end") =>
          \A b \in 1..Len(nb.out) : \A t \in 1..Len(nb.out[b]) :
          \A c \in {-3 * Scale} :
          \A alt \in {Elsewhere(nb.inputs, b, t, c)} :
              FeedForward(alt, nb.ff)[b][t] = nb.out[b][t]

\* the feed-forward of a block has returned for two sequences of three
\* tokens, and replacing the other vectors changes what it and the norm
\* before it return elsewhere
C9_Witness ==
    /\ prog = "llama" /\ pc = "res2"
    /\ Len(x) = 2 /\ Len(x[1]) = 3
    /\ \A n \in {Strict(RMSNorm(residual, model.trf_blocks[layer].norm2.weight))} :
       \A alt \in {Strict(Elsewhere(n, 1, 2, Scale))} :
          /\ alt # n
          /\ RMSNorm(Elsewhere(residual, 1, 2, Scale),
                     model.trf_blocks[layer].norm2.weight)[1][1] # n[1][1]
          /\ FeedForward(alt, model.trf_blocks[layer].ff)[1][1] # x[1][1]
          /\ FeedForward(alt, model.trf_blocks[layer].ff)[2][2] # x[2][2]
          /\ x[1][2] # x[1][1]

\* C10: in the rotary step-through, rotated is the second half of every
\* query vector negated and concatenated in front of the first half, so that
\* queries_rotated = queries * cos + rotated * sin is what compute_rope
\* returns for the same queries and the tables of precompute_rope_params.
C10_StepThrough ==
    (prog = "rope" /\ pc = "end") =>
        /\ nb.rotated = RotateHalf(nb.queries)
        /\ \A t \in {precompute_rope_params(cfg.head_dim, cfg.context_len)} :
               nb.queries_rotated = compute_rope(nb.queries, t.cos, t.sin).val

\* the vector r is the vector v with every pair (v[i], v[i + half]) turned by
\* the angle whose cosine and sine are c[i] and s[i]
Turned(r, v, c, s) ==
    \A i \in 1..(Len(v) \div 2) :
        /\ r[i] = (v[i] * c[i]) \div Scale + ((-v[i + Len(v) \div 2]) * s[i]) \div Scale
        /\ r[i + Len(v) \div 2] =
              (v[i + Len(v) \div 2] * c[i]) \div Scale + (v[i] * s[i]) \div Scale

\* r is the rank-4 tensor v with the vector at sequence index p turned by row
\* p of the tables, as far as the tables have rows
TurnedByRows(r, v, cos, sin) ==
    /\ Shape4(r) = Shape4(v)
    /\ \A b \in 1..Len(v) : \A h \in 1..Len(v[b]) :
       \A p \in 1..Min(Len(v[b][h]), Len(cos)) :
           Turned(r[b][h][p], v[b][h][p], cos[p], sin[p])

AngleAt(p, j, head_dim) ==
    p * InvPow(ThetaBase, 2 * (j % (head_dim \div 2)), head_dim)

\* cos and sin are the tables of the claim for head_dim and context_length
TablesOf(cos, sin, head_dim, context_length) ==
    /\ Len(cos) = context_length /\ Len(sin) = context_length
    /\ \A p \in 1..context_length :
          /\ Len(cos[p]) = head_dim /\ Len(sin[p]) = head_dim
          /\ \A j \in 1..head_dim :
                /\ cos[p][j] = CosFix(AngleAt(p - 1, j - 1, head_dim))
                /\ sin[p][j] = SinFix(AngleAt(p - 1, j - 1, head_dim))
          /\ \A j \in 1..(head_dim \div 2) :
                /\ cos[p][j] = cos[p][j + head_dim \div 2]
                /\ sin[p][j] = sin[p][j + head_dim \div 2]
    /\ \A j \in 1..head_dim : cos[1][j] = Scale /\ sin[1][j] = 0
    /\ Len(Arange(0, head_dim, 2)) = head_dim \div 2
    /\ Cardinality({AngleAt(1, j, head_dim) : j \in 0..(head_dim - 1)}) = head_dim \div 2

\* C12: for an even head_dim, precompute_rope_params returns cos and sin
\* tables of context_length rows and head_dim columns; the entry of row p and
\* column j is the cosine or sine of p * theta_base^(-2 * (j mod (head_dim /
\* 2)) / head_dim), so that the columns j and j + head_dim / 2 agree, there
\* are head_dim / 2 frequencies (the slice [: head_dim // 2] drops none) and
\* row 0 is the angle 0.  The step-through cells compute the same tables.
C12_Tables ==
    /\ (prog = "mha" /\ pc # "cell" /\ err \in {"", ShapeMismatch}) =>
          TablesOf(mha.cos, mha.sin, cfg.d_out \div cfg.num_heads, cfg.context_length)
    /\ (prog = "llama" /\ pc = "call") =>
          \A l \in 1..Len(model.trf_blocks) :
              TablesOf(model.trf_blocks[l].att.cos, model.trf_blocks[l].att.sin,
                       cfg.emb_dim \div cfg.n_heads, cfg.context_length)
    /\ (prog = "rope" /\ pc \in {"queries", "rotated", "adjust"}) =>
          TablesOf(nb.cos, nb.sin, cfg.head_dim, cfg.context_len)

\* a module constructed for a head_dim of four and a context_length of
\* three: two frequencies, and rows that differ
C12_Witness ==
    /\ prog = "mha" /\ pc = "call" /\ calls = 0
    /\ cfg.context_length = 3 /\ cfg.d_out = 4 /\ cfg.num_heads = 1
    /\ mha.cos[3][1] # mha.cos[3][2]
    /\ mha.cos[3][1] = mha.cos[3][3]
    /\ mha.sin[2][1] # 0 /\ mha.sin[2][2] # 0
    /\ mha.cos[2] # mha.cos[3] /\ mha.cos[2] # mha.cos[1]

\* the MultiHeadedAttention modules the cell has constructed
Atts ==
    IF prog = "mha" THEN {mha}
    ELSE {model.trf_blocks[l].att : l \in 1..Len(model.trf_blocks)}

\* what the cell's name for the module is bound to
Module == IF prog = "mha" THEN mha ELSE model

\* C13: MultiHeadedAttention(d_in, d_out, context_length, num_heads) returns a
\* module if and only if d_out % num_heads = 0 and d_out / num_heads is even.
\* When d_out % num_heads # 0 it stops at the assertion of line 807, before a
\* layer or a buffer exists; when the quotient is odd it stops at the
\* assertion of precompute_rope_params; no module is returned in either case.
C13_Construct ==
    (prog \in {"mha", "llama"} /\ pc # "cell") =>
        /\ (pc # "raised" \/ calls > 0) <=> Constructible
        /\ DOut % NumHeads # 0 =>
              /\ pc = "raised" /\ err = AssertDivisible /\ calls = 0
              /\ Module = <<>>
        /\ (DOut % NumHeads = 0 /\ (DOut \div NumHeads) % 2 # 0) =>
              /\ pc = "raised" /\ err = AssertEmbeddingEven /\ calls = 0
              /\ Module = <<>>
              /\ precompute_rope_params(DOut \div NumHeads, cfg.context_length).err
                    = AssertEmbeddingEven
        /\ Constructible =>
              \A att \in Atts :
                  /\ att.d_out = DOut /\ att.num_heads = NumHeads
                  /\ att.head_dim * NumHeads = DOut
                  /\ Len(att.W_query.weight) = DOut /\ Len(att.out_proj.weight) = DOut
                  /\ Len(att.mask) = cfg.context_length
                  /\ Len(att.cos) = cfg.context_length
        /\ prog = "mha" =>
              \A r \in {MultiHeadedAttentionInit(cfg.d_in, cfg.d_out, cfg.context_length,
                                                 cfg.num_heads, cfg.seed)} :
                  /\ r.err = "" <=> Constructible
                  /\ r.err # "" => r.mod = <<>>

\* the constructor has stopped at the assertion of precompute_rope_params
\* for a d_out that num_heads divides with an odd quotient
C13_Witness ==
    /\ prog = "mha" /\ pc = "raised" /\ err = AssertEmbeddingEven
    /\ cfg.d_out = 2 /\ cfg.num_heads = 2
    /\ mha = <<>>

\* the rank-3 tensor t has the shape s, and the rank-4 tensor t the shape s
HasShape3(t, s) ==
    /\ Len(t) = s[1]
    /\ \A b \in 1..Len(t) :
          /\ Len(t[b]) = s[2]
          /\ \A i \in 1..Len(t[b]) : Len(t[b][i]) = s[3]
HasShape4(t, s) ==
    /\ Len(t) = s[1]
    /\ \A b \in 1..Len(t) : HasShape3(t[b], <<s[2], s[3], s[4]>>)

\* C14: for an input of shape (b, n, d_in) with 1 <= n <= context_length,
\* MultiHeadedAttention.forward returns a tensor of shape (b, n, d_out);
\* TransformerBlock.forward returns a tensor of the shape of its input, (b, n,
\* emb_dim); Llama2.forward returns logits of shape (b, n, vocab_size) for
\* token ids of shape (b, n).
C14_Shapes ==
    /\ (prog = "mha" /\ calls > 0 /\ Len(in_idx[1]) <= cfg.context_length) =>
          /\ HasShape3(x, <<Len(in_idx), Len(in_idx[1]), cfg.d_in>>)
          /\ pc \in {"rope", "scores"} =>
                HasShape4(queries, <<Len(in_idx), cfg.num_heads, Len(in_idx[1]),
                                     cfg.d_out \div cfg.num_heads>>)
          /\ pc = "softmax" =>
                HasShape4(attn_scores, <<Len(in_idx), cfg.num_heads, Len(in_idx[1]),
                                         Len(in_idx[1])>>)
          /\ pc = "merge" =>
                HasShape4(context_vec, <<Len(in_idx), Len(in_idx[1]), cfg.num_heads,
                                         cfg.d_out \div cfg.num_heads>>)
          /\ pc = "call" => HasShape3(out, <<Len(in_idx), Len(in_idx[1]), cfg.d_out>>)
    /\ (prog = "llama" /\ calls > 0) =>
          /\ pc \in {"norm1", "att", "res1", "norm2", "final_norm"} =>
                HasShape3(x, <<Len(in_idx), Len(in_idx[1]), cfg.emb_dim>>)
          /\ pc \in {"att", "res1", "norm2", "ff", "res2", "final_norm"} =>
                HasShape3(residual, <<Len(in_idx), Len(in_idx[1]), cfg.emb_dim>>)
          /\ pc = "call" =>
                HasShape3(out, <<Len(in_idx), Len(in_idx[1]), cfg.vocab_size>>)

\* an attention module of two heads with d_in = 3 and d_out = 4 has returned
\* for two sequences of three tokens
C14_Witness ==
    /\ prog = "mha" /\ pc = "call" /\ calls = 1
    /\ cfg.d_in = 3 /\ cfg.d_out = 4 /\ cfg.num_heads = 2 /\ cfg.context_length = 3
    /\ Shape3(x) = <<2, 3, 3>>
    /\ Shape3(out) = <<2, 3, 4>>

\* the rank-4 tensor s (b, heads, n, head_dim) holds, as head h of token t,
\* the features (h - 1) * head_dim + 1 .. h * head_dim of token t of the
\* rank-3 tensor p
HeadsOfFeatures(s, p, num_heads, head_dim) ==
    /\ HasShape4(s, <<Len(p), num_heads, Len(p[1]), head_dim>>)
    /\ \A b \in 1..Len(p) : \A t \in 1..Len(p[b]) :
       \A h \in 1..num_heads : \A d \in 1..head_dim :
           s[b][h][t][d] = p[b][t][(h - 1) * head_dim + d]

\* entry d of what head h returns for token t of sequence b: the weights of
\* row t times the values of the head
HeadResult(b, h, t, d) ==
    IF attn_weights[b][h][t].den = NaN THEN NaN
    ELSE Sum([j \in 1..Len(values[b][h]) |->
                 attn_weights[b][h][t].num[j] * values[b][h][j][d]])
           \div attn_weights[b][h][t].den

\* the heads' results side by side: feature f of token t is entry
\* (f - 1) mod head_dim of head (f - 1) div head_dim
HeadsSideBySide ==
    [b \in 1..Len(values) |-> [t \in 1..Len(values[b][1]) |->
        [f \in 1..CurAtt.d_out |->
            HeadResult(b, ((f - 1) \div CurAtt.head_dim) + 1, t,
                       ((f - 1) % CurAtt.head_dim) + 1)]]]

\* C15: in MultiHeadedAttention.forward head h of token t is the features
\* h * head_dim .. (h + 1) * head_dim - 1 of token t's projected query, key or
\* value, and the vector given to out_proj holds head h's result for token t
\* at the same features of token t: splitting and merging are inverse index
\* mappings that mix no tokens, heads or batch elements.
C15_SplitMerge ==
    /\ pc = "rope" =>
          /\ \A p \in {Strict(Linear(x, CurAtt.W_query))} :
                /\ HeadsOfFeatures(queries, p, CurAtt.num_heads, CurAtt.head_dim)
                /\ MergeHeads(Transpose12(queries), CurAtt.d_out) = p
          /\ \A p \in {Strict(Linear(x, CurAtt.W_key))} :
                HeadsOfFeatures(keys, p, CurAtt.num_heads, CurAtt.head_dim)
          /\ \A p \in {Strict(Linear(x, CurAtt.W_value))} :
                HeadsOfFeatures(values, p, CurAtt.num_heads, CurAtt.head_dim)
    /\ pc = "merge" =>
          /\ \A b \in 1..Len(values) : \A h \in 1..Len(values[b]) :
             \A t \in 1..Len(values[b][h]) : \A d \in 1..Len(values[b][h][t]) :
                 context_vec[b][t][h][d] = HeadResult(b, h, t, d)
          /\ \A m \in {Strict(MergeHeads(context_vec, CurAtt.d_out))} :
                /\ m = HeadsSideBySide
                /\ HeadsOfFeatures(Transpose12(context_vec), m, CurAtt.num_heads,
                                   CurAtt.head_dim)
    /\ (pc = "res1" \/ (prog = "mha" /\ pc = "call" /\ calls > 0)) =>
          \A m \in {Strict(HeadsSideBySide)} : context_vec = Linear(m, CurAtt.out_proj)

\* two heads have returned for two sequences of three tokens, with results
\* that differ between the heads, the tokens and the sequences
C15_Witness ==
    /\ pc = "merge" /\ CurAtt.num_heads = 2 /\ CurAtt.head_dim = 2
    /\ Len(values) = 2 /\ Len(values[1][1]) = 3
    /\ context_vec[1][2][1] # context_vec[1][2][2]
    /\ context_vec[1][2][1] # context_vec[1][3][1]
    /\ context_vec[1][2][1] # context_vec[2][2][1]
    /\ values[1][1][2] # values[1][2][2]
    /\ queries[1][1][2] # queries[1][2][2]
    /\ SplitHeadsByView(Linear(x, CurAtt.W_value), 2, 2) # values

\* the token ids idx with every id after position i replaced by the next id
\* of the vocabulary
LaterReplaced(idx, i, vocab) ==
    [b \in 1..Len(idx) |-> [t \in 1..Len(idx[b]) |->
        IF t > i THEN (idx[b][t] % vocab) + 1 ELSE idx[b][t]]]

\* C16: Llama2.forward is causal: two inputs of one length n <=
\* context_length that agree on the positions 0..i get the same logits at the
\* positions 0..i, whatever the number of layers; no later position
\* influences an earlier one.
C16_Causal ==
    (prog = "llama" /\ pc = "call" /\ calls = 1) =>
        \A i \in 1..(Len(in_idx[1]) - 1) :
        \A o \in {Llama2Forward(model, LaterReplaced(in_idx, i, cfg.vocab_size))} :
            /\ HasShape3(o, <<Len(in_idx), Len(in_idx[1]), cfg.vocab_size>>)
            /\ \A b \in 1..Len(in_idx) : \A t \in 1..i : o[b][t] = out[b][t]

\* a model of two blocks has returned logits for three tokens, and replacing
\* the tokens after the first changes the logits of every later position
C16_Witness ==
    /\ prog = "llama" /\ pc = "call" /\ calls = 1
    /\ cfg.n_layers = 2 /\ Len(in_idx[1]) = 3 /\ cfg.n_heads = 2
    /\ \A o \in {Llama2Forward(model, LaterReplaced(in_idx, 1, cfg.vocab_size))} :
          /\ o[1][2] # out[1][2]
          /\ o[1][3] # out[1][3]
          /\ o[1][1] = out[1][1]
          /\ out[1][1] # out[1][2]

\* C17: a MultiHeadedAttention forward call on num_tokens > context_length
\* returns nothing, whatever context_length >= 1 is: it raises, and never
\* computes the attention with a mask or with rotary tables of fewer rows
\* than the sequence has tokens.
C17_NeverReturns ==
    (prog = "mha" /\ calls > 0 /\ Len(in_idx[1]) > cfg.context_length) =>
        /\ pc \in {"split", "rope", "raised"}
        /\ out = <<>>
        /\ attn_scores = <<>>

\* C18: for 1 <= num_tokens <= context_length the sliced boolean mask is true
\* exactly at the pairs (i, j) with j > i, the diagonal is never masked: every
\* row of the softmax keeps a finite score and is not nan, row i spreads its
\* weight over exactly the positions 0..i, and position 0 attends to itself
\* alone.
C18_Diagonal ==
    (pc \in {"mask", "softmax", "context", "merge"} /\ InContext) =>
        /\ \A m \in {MaskBool(CurAtt.mask, Len(x[1]))} :
              /\ Len(m) = Len(x[1])
              /\ \A i \in 1..Len(m) :
                    /\ Len(m[i]) = Len(x[1])
                    /\ \A j \in 1..Len(m[i]) : m[i][j] <=> j > i
        /\ pc # "mask" =>
              \A b \in 1..Len(attn_scores) : \A h \in 1..Len(attn_scores[b]) :
              \A i \in 1..Len(attn_scores[b][h]) :
                  /\ Len(attn_scores[b][h][i]) = Len(x[1])
                  /\ \A j \in 1..Len(attn_scores[b][h][i]) :
                        attn_scores[b][h][i][j] = NegInf <=> j > i
        /\ pc \in {"context", "merge"} =>
              \A b \in 1..Len(attn_weights) : \A h \in 1..Len(attn_weights[b]) :
              \A i \in 1..Len(attn_weights[b][h]) :
                  /\ attn_weights[b][h][i].den # NaN
                  /\ attn_weights[b][h][i].den = Sum(attn_weights[b][h][i].num)
                  /\ \A j \in 1..Len(attn_weights[b][h][i].num) :
                        /\ attn_weights[b][h][i].num[j] # NaN
                        /\ attn_weights[b][h][i].num[j] > 0 <=> j <= i
                        /\ attn_weights[b][h][i].num[j] = 0 <=> j > i
                  /\ i = 1 => attn_weights[b][h][i].num[1] = attn_weights[b][h][i].den

\* the softmax has returned for three tokens in a context of three: the last
\* row holds three different positive weights and the first one weight
C18_Witness ==
    /\ pc = "context" /\ InContext /\ Len(x[1]) = 3 /\ Len(CurAtt.mask) = 3
    /\ attn_scores[1][1][1] = <<attn_scores[1][1][1][1], NegInf, NegInf>>
    /\ attn_scores[1][1][2][2] # 0
    /\ attn_weights[1][1][1].num = <<attn_weights[1][1][1].den, 0, 0>>
    /\ attn_weights[1][1][3].num[1] # attn_weights[1][1][3].num[2]
    /\ attn_weights[1][1][3].num[2] # attn_weights[1][1][3].num[3]
    /\ attn_weights[1][1][2].num[1] > 0 /\ attn_weights[1][1][2].num[3] = 0
====
